---- MODULE Spec2Model ----
(***************************************************************************)
(* Dynamic-schema query-routing engine of free_query: the table store, the *)
(* extraction dispatcher, the merge engine (both copies: query_processor   *)
(* and free_query_v3), the filter executor and the query router            *)
(* (free_query_v3.handle_query).                                           *)
(*                                                                         *)
(* Text is a sequence of one-character strings; a clause text is a         *)
(* sequence of tokens (its corpus text followed by the suffixes that       *)
(* extraction appended); a cell value is a sequence too, so that every     *)
(* value of the store can be compared with every other.                    *)
(***************************************************************************)
EXTENDS Integers, Sequences, FiniteSets, TLC

\* ------------------------------------------------------------------------
\* Bounds
\* ------------------------------------------------------------------------
MaxClauses == 2
MaxMerges == 2
MaxQueries == 2
MaxNameLen == 2

\* ------------------------------------------------------------------------
\* Characters and strings
\* ------------------------------------------------------------------------
LowerLetters ==
    {"a","b","c","d","e","f","g","h","i","j","k","l","m",
     "n","o","p","q","r","s","t","u","v","w","x","y","z"}

UpperLetters == {"C", "F"}

Digits == {"1", "5"}

Whitespace == {" "}

\* str.lower() on one character
lower(c) == CASE c = "C" -> "c" [] c = "F" -> "f" [] OTHER -> c

\* str.isalnum() / str.isalpha() on one character
isalnum(c) == c \in LowerLetters \cup UpperLetters \cup Digits

isalpha(c) == c \in LowerLetters \cup UpperLetters

\* a lower() that leaves the case as it is
Lower_asis(s) == s

\* str.lower() on a string
Lower(s) == [i \in 1..Len(s) |-> lower(s[i])]

RECURSIVE lstrip(_)
lstrip(s) == IF s /= <<>> /\ Head(s) \in Whitespace THEN lstrip(Tail(s)) ELSE s

RECURSIVE rstrip(_)
rstrip(s) ==
    IF s /= <<>> /\ s[Len(s)] \in Whitespace
    THEN rstrip(SubSeq(s, 1, Len(s) - 1))
    ELSE s

\* str.strip()
strip(s) == rstrip(lstrip(s))

\* `sub in s` on strings
Contains(s, sub) ==
    \E i \in 0..(Len(s) - Len(sub)) : SubSeq(s, i + 1, i + Len(sub)) = sub

\* sanitized[0] raises IndexError when the stripped name is empty
sanitize_raises(field_name) == strip(field_name) = <<>>

sanitize_field_name(field_name) ==
    LET t == Lower(strip(field_name))
        sanitized == [i \in 1..Len(t) |-> IF isalnum(t[i]) THEN t[i] ELSE "_"]
    IN  IF ~isalpha(sanitized[1]) /\ sanitized[1] /= "_"
        THEN <<"_">> \o sanitized
        ELSE sanitized

\* ------------------------------------------------------------------------
\* Names and values
\* ------------------------------------------------------------------------
NULL == <<"NULL">>

ClauseCol == <<"c","l","a","u","s","e">>

ParentCol == <<"p","a","r","e","n","t","_","f","i","e","l","d">>

CompanyCol == <<"c","o">>

TABLE_NAME == <<"clauses">>

\* a staging table that takes the name of the main table
StagingName_main(san) == TABLE_NAME

\* f"extracted_{sanitized_new_field_name}"
StagingName(san) == <<"extracted_">> \o san

\* ------------------------------------------------------------------------
\* Python dicts: a sequence of <<key, value>> pairs with distinct keys, in
\* insertion order
\* ------------------------------------------------------------------------
DictKeys(d) == [i \in 1..Len(d) |-> d[i][1]]

DictHas(d, k) == \E i \in 1..Len(d) : d[i][1] = k

\* d.get(k): None when the key is absent
DictGet(d, k) ==
    IF DictHas(d, k)
    THEN d[CHOOSE i \in 1..Len(d) : d[i][1] = k][2]
    ELSE NULL

\* d[k] = v
DictSet(d, k, v) ==
    IF DictHas(d, k)
    THEN [i \in 1..Len(d) |-> IF d[i][1] = k THEN <<k, v>> ELSE d[i]]
    ELSE Append(d, <<k, v>>)

SeqToSet(s) == {s[i] : i \in 1..Len(s)}

\* str.replace(ch, "") for a one-character ch
Remove(s, ch) == SelectSeq(s, LAMBDA c : c /= ch)

\* ------------------------------------------------------------------------
\* Python values held in records and cells: None, str (a sequence of
\* characters), float (tagged), and a nested JSON value (list or object)
\* ------------------------------------------------------------------------
NESTED == <<"#list">>

FloatOf(digits) == <<"#float">> \o digits

IsNone(v) == v = NULL

IsFloat(v) == v /= <<>> /\ v[1] = "#float"

\* isinstance(v, str)
IsStr(v) == v = <<>> \/ v[1] \notin {"NULL", "#float", "#list"}

\* float(s) accepts s: digits, or the words nan and inf, after stripping
FloatParses(s) ==
    LET t == strip(s)
    IN  /\ t /= <<>>
        /\ \/ \A i \in 1..Len(t) : t[i] \in Digits
           \/ Lower(t) \in {<<"n","a","n">>, <<"i","n","f">>}

\* float(s) for a string float() accepts
ParseFloat(s) == FloatOf(Lower(strip(s)))

\* str(v)
Str(v) ==
    IF IsFloat(v) THEN Tail(v) \o <<".", "0">>
    ELSE IF v = NULL THEN <<"N","o","n","e">>
    ELSE IF v = NESTED THEN <<"[", "]">>
    ELSE v

\* sqlite3 can bind None, str and float; a list or dict raises
Bindable(v) == v /= NESTED

\* the value a column of TEXT affinity stores for a bound value
TextAffinity(v) == IF IsFloat(v) THEN Str(v) ELSE v

\* ------------------------------------------------------------------------
\* Extraction dispatcher
\* ------------------------------------------------------------------------
\* f" zebra percentage: {random.random()}" for the draws the model makes
RandomDraws == {"0.1", "0.5"}

ZebraSuffix(r) == <<" zebra percentage: ", r>>

\* a failure record that has lost its keys
AllNone_empty(fields) == <<>>

\* {field: None for field in fields}
AllNone(fields) ==
    LET RECURSIVE Build(_, _)
        Build(d, fs) == IF fs = <<>> THEN d
                        ELSE Build(DictSet(d, Head(fs), NULL), Tail(fs))
    IN  Build(<<>>, fields)

\* for field in fields: if field not in result: result[field] = None
FillMissing(result, fields) ==
    LET RECURSIVE Fill(_, _)
        Fill(d, fs) == IF fs = <<>> THEN d
                       ELSE Fill(IF DictHas(d, Head(fs)) THEN d
                                 ELSE DictSet(d, Head(fs), NULL), Tail(fs))
    IN  Fill(result, fields)

\* One call of the Text-Understanding Service for extraction: it raises,
\* answers with text json.loads rejects, answers with JSON that is not an
\* object, or answers with an object (a dict).
ExtractKinds == {"raise", "bad_json", "not_object", "object"}

extract_fields_from_clause_ok(clause, fields, result, r) ==
    DictSet(FillMissing(result, fields), ClauseCol, clause \o ZebraSuffix(r))

extract_fields_from_clause(clause, fields, out, r) ==
    IF out.kind = "object"
    THEN extract_fields_from_clause_ok(clause, fields, out.result, r)
    ELSE AllNone(fields)

\* query_processor.extract_fields_from_clause: the value conversion
qp_convert(value) ==
    IF ~IsStr(value) THEN value
    ELSE IF "%" \in SeqToSet(value)
         THEN IF FloatParses(Remove(value, "%"))  \* float(value.strip('%')) / 100
              THEN FloatOf(<<"0", ".", "0">> \o strip(Remove(value, "%")))
              ELSE value
    ELSE IF "$" \in SeqToSet(value) \/ "," \in SeqToSet(value)
         THEN IF FloatParses(Remove(Remove(value, "$"), ","))
              THEN ParseFloat(Remove(Remove(value, "$"), ","))
              ELSE value
    ELSE IF (\E i \in 1..Len(value) : value[i] \in Digits) /\ FloatParses(value)
         THEN ParseFloat(value)
    ELSE value

qp_extract_fields_from_clause(clause, fields, out) ==
    IF out.kind = "object"
    THEN LET filled == FillMissing(out.result, fields)
             conv == [i \in 1..Len(filled) |->
                        IF filled[i][1] \in SeqToSet(fields)
                           /\ DictHas(out.result, filled[i][1])
                        THEN <<filled[i][1], qp_convert(filled[i][2])>>
                        ELSE filled[i]]
         IN  DictSet(conv, ClauseCol, clause)
    ELSE AllNone(fields)

\* ------------------------------------------------------------------------
\* Type inferencer
\* ------------------------------------------------------------------------
SqlTypes == {"REAL", "DATE", "TEXT"}

\* strings datetime.strptime accepts under one of the four formats, with the
\* '%Y-%m-%d' rendering of each
DateStrings == {<<"2024-01-05">>, <<"01/05/2024">>}

IsDateStr(v) == IsStr(v) /\ v \in DateStrings

ToIsoDate(v) == <<"2024-01-05">>

numeric_indicators ==
    {<<"a","m","o","u","n","t">>, <<"p","r","i","c","e">>, <<"c","o","s","t">>,
     <<"f","e","e">>, <<"p","e","r","c","e","n","t","a","g","e">>,
     <<"r","a","t","e">>, <<"n","u","m","b","e","r">>, <<"c","o","u","n","t">>,
     <<"q","u","a","n","t","i","t","y">>}

date_indicators ==
    {<<"d","a","t","e">>, <<"t","i","m","e">>, <<"d","e","a","d","l","i","n","e">>,
     <<"e","x","p","i","r","y">>, <<"e","x","p","i","r","a","t","i","o","n">>,
     <<"s","t","a","r","t">>, <<"e","n","d">>}

\* the try block of the numeric loop: does this value count as numeric
CountsNumeric(val) ==
    IF IsStr(val) /\ "%" \in SeqToSet(val) THEN TRUE
    ELSE FloatParses(Remove(Remove(Str(val), "$"), ","))

\* query_processor.infer_sql_column_type; values holds no None
infer_sql_column_type(values, column_name) ==
    LET n == Len(values)
        numeric_count == Len(SelectSeq(values, CountsNumeric))
        date_count == Len(SelectSeq(values, IsDateStr))
    IN  IF 2 * numeric_count > n THEN "REAL"
        ELSE IF 2 * date_count > n THEN "DATE"
        ELSE IF \E ind \in numeric_indicators : Contains(Lower(column_name), ind)
             THEN "REAL"
        ELSE IF \E ind \in date_indicators : Contains(Lower(column_name), ind)
             THEN "DATE"
        ELSE "TEXT"

\* free_query_v3.infer_sql_column_type_rule_list: the type is the answer of
\* the Text-Understanding Service when it is one of the three names, and
\* TEXT on any other answer or on an exception
infer_sql_column_type_rule_list(answer) ==
    IF answer \in SqlTypes THEN answer ELSE "TEXT"

\* ------------------------------------------------------------------------
\* Table store
\* ------------------------------------------------------------------------
\* A table is [cols |-> sequence of column names, aff |-> column -> declared
\* SQL type, rows |-> sequence of rows]; a row maps each column to a value.

\* text SQLite converts to a number under REAL affinity
SqlNumeric(v) ==
    IsStr(v) /\ strip(v) /= <<>> /\ \A i \in 1..Len(strip(v)) : strip(v)[i] \in Digits

\* the value a column stores for a bound value
Stored(sql_type, v) ==
    IF sql_type = "REAL"
    THEN IF SqlNumeric(v) THEN FloatOf(strip(v)) ELSE v
    ELSE TextAffinity(v)

\* index of the first occurrence of x in s
FirstIndex(s, x) == CHOOSE i \in 1..Len(s) : s[i] = x /\ \A j \in 1..(i - 1) : s[j] /= x

\* keys of a dict, each once, in order of first occurrence after mapping by f
RECURSIVE Dedup(_)
Dedup(s) ==
    IF s = <<>> THEN <<>>
    ELSE LET d == Dedup(SubSeq(s, 1, Len(s) - 1))
         IN  IF s[Len(s)] \in SeqToSet(d) THEN d ELSE Append(d, s[Len(s)])

\* parent_field is truthy: neither None nor the empty string
Truthy(parent_field) == parent_field /= NULL /\ parent_field /= <<>>

\* records[0] raises IndexError on an empty batch, and sanitize_field_name
\* raises on a key that is empty after stripping: nothing was written yet
store_raises_early(records) ==
    \/ records = <<>>
    \/ \E i \in 1..Len(records[1]) : sanitize_raises(records[1][i][1])

\* sample.keys() at the time of the insert: the parent_field key was added
\* to every record, the sample included
SampleKeys(records, parent_field) ==
    IF Truthy(parent_field) /\ ~DictHas(records[1], ParentCol)
    THEN Append(DictKeys(records[1]), ParentCol)
    ELSE DictKeys(records[1])

\* the schema dict: sanitized sample keys, parent_field, clause
StoreSchemaCols(records, parent_field) ==
    LET keys == DictKeys(records[1])
        base == Dedup([i \in 1..Len(keys) |-> sanitize_field_name(keys[i])])
        withParent == IF Truthy(parent_field) /\ ParentCol \notin SeqToSet(base)
                      THEN Append(base, ParentCol) ELSE base
    IN  IF ClauseCol \notin SeqToSet(withParent)
        THEN Append(withParent, ClauseCol) ELSE withParent

\* cols_list of the INSERT statement
InsertCols(records, parent_field) ==
    LET keys == SampleKeys(records, parent_field)
        mapped == [i \in 1..Len(keys) |->
                     IF keys[i] = ParentCol /\ Truthy(parent_field) THEN ParentCol
                     ELSE sanitize_field_name(keys[i])]
        withParent == IF Truthy(parent_field) THEN Append(mapped, ParentCol) ELSE mapped
    IN  IF ClauseCol \notin SeqToSet(withParent)
        THEN Append(withParent, ClauseCol) ELSE withParent

\* one entry of transformed_rows; rec is the record after the parent_field
\* key was set
InsertRow(records, parent_field, rec0) ==
    LET rec == IF Truthy(parent_field) THEN DictSet(rec0, ParentCol, parent_field) ELSE rec0
        keys == SampleKeys(records, parent_field)
        vals == [i \in 1..Len(keys) |-> DictGet(rec, keys[i])]
        withParent == IF Truthy(parent_field)
                      THEN Append(vals, DictGet(rec, ParentCol)) ELSE vals
    IN  IF ClauseCol \notin SeqToSet(keys)
        THEN Append(withParent, DictGet(rec, ClauseCol)) ELSE withParent

\* executemany raises on a row whose length differs from the placeholders
\* or that holds a value sqlite3 cannot bind
insert_raises(records, parent_field) ==
    \E i \in 1..Len(records) :
        LET row == InsertRow(records, parent_field, records[i])
        IN  \/ Len(row) /= Len(InsertCols(records, parent_field))
            \/ \E j \in 1..Len(row) : ~Bindable(row[j])

\* the table CREATE TABLE and a completed executemany leave; type maps a
\* column of the schema to REAL, DATE or TEXT; a duplicated column of the
\* INSERT takes the first value given for it
StoredTable(records, parent_field, type) ==
    LET cols == StoreSchemaCols(records, parent_field)
        icols == InsertCols(records, parent_field)
        aff == [c \in SeqToSet(cols) |-> IF type[c] = "REAL" THEN "REAL" ELSE "TEXT"]
        RowOf(rec) ==
            LET vals == InsertRow(records, parent_field, rec)
            IN  [c \in SeqToSet(cols) |->
                    IF c \in SeqToSet(icols)
                    THEN Stored(aff[c], vals[FirstIndex(icols, c)])
                    ELSE NULL]
    IN  [cols |-> cols, aff |-> aff,
         rows |-> [i \in 1..Len(records) |-> RowOf(records[i])]]

\* CREATE TABLE alone: the state left when the bulk insert raised and the
\* connection was dropped without commit
EmptyTable(records, parent_field, type) ==
    [StoredTable(records, parent_field, type) EXCEPT !.rows = <<>>]

\* the last key of the sample that sanitizes to column c
LastKeyFor(keys, c) ==
    keys[CHOOSE i \in 1..Len(keys) :
            /\ sanitize_field_name(keys[i]) = c
            /\ \A j \in (i + 1)..Len(keys) : sanitize_field_name(keys[j]) /= c]

\* [r[col] for r in records if r.get(col) is not None]
NonNullValues(records, col) ==
    LET all == [i \in 1..Len(records) |-> DictGet(records[i], col)]
    IN  SelectSeq(all, LAMBDA v : v /= NULL)

\* the schema dict of free_query_v3.store_records_sql; answer maps a sample
\* key to the service's answer for the type of that column
SchemaTypes(records, parent_field, answer) ==
    LET keys == DictKeys(records[1])
        sans == {sanitize_field_name(keys[i]) : i \in 1..Len(keys)}
    IN  [c \in SeqToSet(StoreSchemaCols(records, parent_field)) |->
            IF c = ParentCol /\ Truthy(parent_field) THEN "TEXT"
            ELSE IF c \in sans
                 THEN infer_sql_column_type_rule_list(answer[LastKeyFor(keys, c)])
                 ELSE "TEXT"]

\* the schema dict free_query_v3.store_records_sql returns
store_records_sql_schema(records, parent_field, answer) ==
    LET cols == StoreSchemaCols(records, parent_field)
    IN  [i \in 1..Len(cols) |->
            <<cols[i], SchemaTypes(records, parent_field, answer)[cols[i]]>>]

\* free_query_v3.store_records_sql on a batch it can store
store_records_sql(records, parent_field, answer) ==
    StoredTable(records, parent_field, SchemaTypes(records, parent_field, answer))

\* query_processor.store_records_sql: the schema it infers
qp_SchemaTypes(records, parent_field) ==
    LET keys == DictKeys(records[1])
        sans == {sanitize_field_name(keys[i]) : i \in 1..Len(keys)}
    IN  [c \in SeqToSet(StoreSchemaCols(records, parent_field)) |->
            IF c = ParentCol /\ Truthy(parent_field) THEN "TEXT"
            ELSE IF c \in sans
                 THEN LET k == LastKeyFor(keys, c)
                      IN  infer_sql_column_type(NonNullValues(records, k), k)
                 ELSE "TEXT"]

\* the conversion of one value of a column inferred as REAL or DATE
qp_store_convert(sql_type, v) ==
    IF v = NULL \/ ~IsStr(v) THEN v
    ELSE IF sql_type = "REAL"
         THEN IF "%" \in SeqToSet(v)
              THEN IF FloatParses(Remove(v, "%"))
                   THEN FloatOf(<<"0", ".", "0">> \o strip(Remove(v, "%")))
                   ELSE NULL
              ELSE IF FloatParses(Remove(Remove(v, "$"), ","))
                   THEN ParseFloat(Remove(Remove(v, "$"), ","))
                   ELSE NULL
    ELSE IF sql_type = "DATE"
         THEN IF IsDateStr(v) THEN ToIsoDate(v) ELSE v
    ELSE v

\* the records after the conversion loop
qp_converted(records, parent_field) ==
    LET keys == DictKeys(records[1])
        type(k) == infer_sql_column_type(NonNullValues(records, k), k)
    IN  [i \in 1..Len(records) |->
            [j \in 1..Len(records[i]) |->
                IF records[i][j][1] \in SeqToSet(keys)
                THEN <<records[i][j][1],
                       qp_store_convert(type(records[i][j][1]), records[i][j][2])>>
                ELSE records[i][j]]]

\* query_processor.store_records_sql on a batch it can store
qp_store_records_sql(records, parent_field) ==
    StoredTable(qp_converted(records, parent_field), parent_field,
                qp_SchemaTypes(records, parent_field))

\* ------------------------------------------------------------------------
\* Merge engine
\* ------------------------------------------------------------------------
\* a column added by building the table anew, without its values
AddColumn_recreate(t, c) ==
    [cols |-> Append(t.cols, c),
     aff |-> [x \in SeqToSet(t.cols) \cup {c} |-> IF x = c THEN "TEXT" ELSE t.aff[x]],
     rows |-> [i \in 1..Len(t.rows) |-> [x \in SeqToSet(t.cols) \cup {c} |-> NULL]]]

\* ALTER TABLE ... ADD COLUMN c TEXT
AddColumn(t, c) ==
    [cols |-> Append(t.cols, c),
     aff |-> [x \in SeqToSet(t.cols) \cup {c} |-> IF x = c THEN "TEXT" ELSE t.aff[x]],
     rows |-> [i \in 1..Len(t.rows) |->
                 [x \in SeqToSet(t.cols) \cup {c} |->
                     IF x = c THEN NULL ELSE t.rows[i][x]]]]

\* The statements of a merge at which an injected storage error can strike.
\* "dml" with index k is the k-th row statement of the merge.
MergeFaults == {"none", "pragma", "alter_new", "alter_parent", "select", "dml"}

\* the table after the two ALTER TABLE statements, and whether one of them
\* raised; main_columns is the column list read before the first ALTER
AfterAlters(main, san, fault) ==
    LET main_columns == SeqToSet(main.cols)
        needNew == san \notin main_columns
        needParent == ParentCol \notin main_columns
        failNew == needNew /\ fault = "alter_new"
        t1 == IF needNew /\ ~failNew THEN AddColumn(main, san) ELSE main
        \* adding a column that exists raises "duplicate column name"
        failParent == /\ ~failNew
                      /\ needParent
                      /\ (fault = "alter_parent" \/ ParentCol \in SeqToSet(t1.cols))
        t2 == IF ~failNew /\ needParent /\ ~failParent
              THEN AddColumn(t1, ParentCol) ELSE t1
    IN  [table |-> t2, failed |-> failNew \/ failParent]

\* the result of a merge call: the store it leaves and how it ended: "ok"
\* (committed), "error" (sqlite3.Error caught, printed, rolled back) or
\* "raised" (another exception left the function)
\* signal is what the caller gets: the handler of sqlite3.Error prints and
\* rolls back without re-raising, so the call returns None as on success
MergeResult(store, outcome) ==
    [db |-> store, outcome |-> outcome,
     signal |-> IF outcome = "raised" THEN "exception" ELSE "returns None"]

\* the value of TEXT or REAL column c of table t that equals a bound value
SameCell(t, c, cell, param) == param /= NULL /\ cell /= NULL /\ cell = Stored(t.aff[c], param)

\* UPDATE main SET san = ?, parent_field = ? WHERE clause = ?
qp_update(t, san, clause, value, parent) ==
    [t EXCEPT !.rows =
        [i \in 1..Len(t.rows) |->
            IF SameCell(t, ClauseCol, t.rows[i][ClauseCol], clause)
            THEN [x \in SeqToSet(t.cols) |->
                    IF x = ParentCol THEN Stored(t.aff[x], parent)
                    ELSE IF x = san THEN Stored(t.aff[x], value)
                    ELSE t.rows[i][x]]
            ELSE t.rows[i]]]

\* INSERT INTO main (clause, san, parent_field) VALUES (?, ?, ?)
qp_insert(t, san, clause, value, parent) ==
    [t EXCEPT !.rows =
        Append(t.rows,
            [x \in SeqToSet(t.cols) |->
                IF x = ClauseCol THEN Stored(t.aff[x], clause)
                ELSE IF x = san THEN Stored(t.aff[x], value)
                ELSE IF x = ParentCol THEN Stored(t.aff[x], parent)
                ELSE NULL])]

qp_exists_never(t, clause) == FALSE

\* SELECT 1 FROM main WHERE clause = ?
qp_exists(t, clause) ==
    \E i \in 1..Len(t.rows) : SameCell(t, ClauseCol, t.rows[i][ClauseCol], clause)

\* the loop over new_values from entry i on; done counts the staging rows
\* with a value processed so far; the k-th of them raises when fault = "dml"
RECURSIVE qp_merge_rows(_, _, _, _, _, _, _)
qp_merge_rows(t, san, new_values, i, done, fault, k) ==
    IF i > Len(new_values) THEN [table |-> t, failed |-> FALSE]
    ELSE LET clause == new_values[i][1]
             value == new_values[i][2]
             parent == new_values[i][3]
         IN  IF value = NULL
             THEN qp_merge_rows(t, san, new_values, i + 1, done, fault, k)
             ELSE IF fault = "dml" /\ done + 1 = k
                  THEN [table |-> t, failed |-> TRUE]
             ELSE IF qp_exists(t, clause)
                  THEN qp_merge_rows(qp_update(t, san, clause, value, parent),
                                     san, new_values, i + 1, done + 1, fault, k)
                  ELSE qp_merge_rows(qp_insert(t, san, clause, value, parent),
                                     san, new_values, i + 1, done + 1, fault, k)

\* query_processor.merge_new_fields_to_main_table.  The ALTER TABLE
\* statements run outside any transaction (the sqlite3 module opens one only
\* before INSERT, UPDATE and DELETE), so conn.rollback() undoes the row
\* statements alone.
qp_merge_new_fields_to_main_table(store, new_table_name, new_field, parent_field, fault, k) ==
    IF fault = "pragma" THEN MergeResult(store, "error")
    ELSE IF sanitize_raises(new_field)
            \/ (Truthy(parent_field) /\ sanitize_raises(parent_field))
         THEN MergeResult(store, "raised")
    ELSE IF TABLE_NAME \notin DOMAIN store THEN MergeResult(store, "error")
    ELSE
    LET san == sanitize_field_name(new_field)
        alt == AfterAlters(store[TABLE_NAME], san, fault)
        altered == [store EXCEPT ![TABLE_NAME] = alt.table]
    IN  IF alt.failed THEN MergeResult(altered, "error")
        ELSE IF \/ fault = "select"
                \/ new_table_name \notin DOMAIN store
                \/ ClauseCol \notin SeqToSet(alt.table.cols)
                \/ ~({ClauseCol, ParentCol} \subseteq SeqToSet(store[new_table_name].cols))
             THEN MergeResult(altered, "error")
        ELSE
        LET stg == store[new_table_name]
            \* a double-quoted name that is no column reads as a string
            new_values == [i \in 1..Len(stg.rows) |->
                             <<stg.rows[i][ClauseCol],
                               IF san \in SeqToSet(stg.cols) THEN stg.rows[i][san] ELSE san,
                               stg.rows[i][ParentCol]>>]
            loop == qp_merge_rows(alt.table, san, new_values, 1, 0, fault, k)
        IN  IF loop.failed THEN MergeResult(altered, "error")
            ELSE MergeResult([store EXCEPT ![TABLE_NAME] = loop.table], "ok")

\* the single UPDATE of free_query_v3: every main row whose clause equals
\* the clause of a staging row takes the values of the first such staging
\* row; a column the staging table lacks resolves to the main row's own
v3_update(t, stg, san) ==
    LET Match(m, r) == /\ m[ClauseCol] /= NULL
                       /\ r[ClauseCol] /= NULL
                       /\ m[ClauseCol] = r[ClauseCol]
        First(m) == stg.rows[CHOOSE j \in 1..Len(stg.rows) :
                                /\ Match(m, stg.rows[j])
                                /\ \A h \in 1..(j - 1) : ~Match(m, stg.rows[h])]
        From(m, c) == IF c \in SeqToSet(stg.cols)
                      THEN Stored(t.aff[c], First(m)[c]) ELSE m[c]
    IN  [t EXCEPT !.rows =
            [i \in 1..Len(t.rows) |->
                IF \E j \in 1..Len(stg.rows) : Match(t.rows[i], stg.rows[j])
                THEN [x \in SeqToSet(t.cols) |->
                        IF x = ParentCol THEN From(t.rows[i], ParentCol)
                        ELSE IF x = san THEN From(t.rows[i], san)
                        ELSE t.rows[i][x]]
                ELSE t.rows[i]]]

\* free_query_v3.merge_new_fields_to_main_table
merge_new_fields_to_main_table(store, new_table_name, new_field, parent_field, fault, k) ==
    IF fault = "pragma" THEN MergeResult(store, "error")
    ELSE IF sanitize_raises(new_field)
            \/ (Truthy(parent_field) /\ sanitize_raises(parent_field))
         THEN MergeResult(store, "raised")
    ELSE IF TABLE_NAME \notin DOMAIN store THEN MergeResult(store, "error")
    ELSE
    LET san == sanitize_field_name(new_field)
        alt == AfterAlters(store[TABLE_NAME], san, fault)
        altered == [store EXCEPT ![TABLE_NAME] = alt.table]
    IN  IF alt.failed THEN MergeResult(altered, "error")
        ELSE IF \/ fault \in {"select", "dml"}
                \/ new_table_name \notin DOMAIN store
                \/ ClauseCol \notin SeqToSet(alt.table.cols)
                \/ ClauseCol \notin SeqToSet(store[new_table_name].cols)
             THEN MergeResult(altered, "error")
        ELSE MergeResult(
                [store EXCEPT ![TABLE_NAME] =
                    v3_update(alt.table, store[new_table_name], san)], "ok")

\* ------------------------------------------------------------------------
\* Query decision and attribute discovery
\* ------------------------------------------------------------------------
\* any(f.lower() in query.lower() for f in known_fields)
AnyFieldInQuery(query, known_fields) ==
    \E i \in 1..Len(known_fields) : Contains(Lower(query), Lower(known_fields[i]))

\* The classification call either raises or answers with a text; answer is
\* that text after strip().lower(), or "raise".
\* free_query_v3.decide_query_type
decide_query_type(query, known_fields, answer) ==
    IF answer \in {"hit", "miss"} THEN answer
    ELSE IF AnyFieldInQuery(query, known_fields) THEN "hit" ELSE "miss"

\* query_processor.decide_query_type
qp_decide_query_type(query, known_fields, answer) ==
    IF answer = "raise"
    THEN IF AnyFieldInQuery(query, known_fields) THEN "hit" ELSE "miss"
    ELSE IF answer \in {"hit", "miss"} THEN answer ELSE "hit"

\* str.replace(sub, "") for a non-empty sub
RECURSIVE ReplaceAll(_, _)
ReplaceAll(s, sub) ==
    IF Len(s) < Len(sub) THEN s
    ELSE IF SubSeq(s, 1, Len(sub)) = sub
         THEN ReplaceAll(SubSeq(s, Len(sub) + 1, Len(s)), sub)
         ELSE <<Head(s)>> \o ReplaceAll(Tail(s), sub)

unknown_new_field == <<"u","n","k","n","o","w","n","_","n","e","w","_","f","i","e","l","d">>

unknown_new_field_on_error == <<"u","n","k","n","o","w","n","_","n","e","w","_","f","i","e","l","d","_","o","n","_","e","r","r","o","r">>

\* the new field derived from the query by removing the question stems
derived_new_field(query) ==
    strip(ReplaceAll(ReplaceAll(ReplaceAll(ReplaceAll(Lower(query),
        <<"w","h","a","t"," ","i","s"," ","t","h","e">>), <<"f","i","n","d">>), <<"w","h","a","t"," ","i","s">>), <<"s","h","o","w"," ","m","e">>))

\* truthiness of a value returned under the key new_field
TruthyValue(v) == v /= NULL /\ v /= <<>>

\* free_query_v3.decide_new_field; out is the outcome of the service call:
\* it raised or answered with text that is no JSON object, or it answered
\* with an object whose new_field and parent_field values are given
decide_new_field(query, known_fields, out) ==
    IF out.kind /= "object"
    THEN <<IF derived_new_field(query) /= <<>> THEN derived_new_field(query)
           ELSE unknown_new_field_on_error, NULL>>
    ELSE IF ~TruthyValue(out.new_field)
         THEN <<IF derived_new_field(query) /= <<>> THEN derived_new_field(query)
                ELSE unknown_new_field, NULL>>
    ELSE IF IsStr(out.parent_field)
            /\ Lower(out.parent_field) \in {<<"n","o","n","e">>, <<"n","u","l","l">>, <<>>}
         THEN <<out.new_field, NULL>>
    ELSE <<out.new_field, out.parent_field>>

\* ------------------------------------------------------------------------
\* Filter synthesis and execution
\* ------------------------------------------------------------------------
\* A statement is a sequence of words; a word is a sequence of strings, so
\* that a column name can stand inside quotes.
\* f'"{name}"'
Quoted(name) == <<"\"">> \o name \o <<"\"">>

\* a word of sql.upper(): the keywords are the words that come in two cases
UpperWord(w) ==
    CASE w = <<"select">> -> <<"SELECT">>
      [] w = <<"from">> -> <<"FROM">>
      [] w = <<"where">> -> <<"WHERE">>
      [] OTHER -> w

\* "<keyword>" in sql.upper()
InUpper(sql, keyword) == \E i \in 1..Len(sql) : UpperWord(sql[i]) = <<keyword>>

\* sql.replace(word, by): str.replace matches the text as it is written
RECURSIVE ReplaceWord(_, _, _)
ReplaceWord(sql, word, by) ==
    IF sql = <<>> THEN <<>>
    ELSE (IF Head(sql) = word THEN by ELSE <<Head(sql)>>)
         \o ReplaceWord(Tail(sql), word, by)

\* f"SELECT * FROM {table_name}"
SelectAllFrom(table_name) == <<<<"SELECT">>, <<"*">>, <<"FROM">>, table_name>>

\* f'SELECT * FROM {table_name} WHERE "{name}" IS NOT NULL'
SelectNotNull(table_name, name) ==
    SelectAllFrom(table_name) \o <<<<"WHERE">>, Quoted(name), <<"IS NOT NULL">>>>

\* the first key of the schema that occurs in the query, letter case
\* ignored; None when there is none
QueriedField(query, sch) ==
    LET found == SelectSeq(DictKeys(sch),
                     LAMBDA field : Contains(Lower(query), Lower(field)))
    IN  IF found = <<>> THEN NULL ELSE found[1]

\* the guard for the queried field (name is how the field is written in it)
\* and the check of the table
GuardAndTable(sql, table_name, field_name, name) ==
    LET guarded ==
            IF field_name /= NULL
            THEN IF ~InUpper(sql, "WHERE")
                 THEN SelectNotNull(table_name, name)
                 ELSE ReplaceWord(sql, <<"WHERE">>,
                         <<<<"WHERE">>, Quoted(name), <<"IS NOT NULL">>, <<"AND">>>>)
            ELSE sql
    IN  IF ~InUpper(guarded, "FROM") THEN SelectAllFrom(table_name)
        ELSE IF ~\E i \in 1..Len(guarded) : guarded[i] = table_name
             THEN ReplaceWord(guarded, <<"FROM">>, <<<<"FROM">>, table_name>>)
             ELSE guarded

\* the loop that rewrites the schema keys that are no identifiers, quoted
\* or bare, to their sanitized names
RECURSIVE RenameFields(_, _)
RenameFields(sql, fields) ==
    IF fields = <<>> THEN sql
    ELSE LET field == Head(fields)
             sanitized == sanitize_field_name(field)
         IN  RenameFields(
                 IF field /= sanitized
                 THEN ReplaceWord(ReplaceWord(sql, Quoted(field), <<Quoted(sanitized)>>),
                                  field, <<sanitized>>)
                 ELSE sql,
                 Tail(fields))

\* free_query_v3.generate_filter_sql; out is the outcome of the service
\* call: it raised, or it answered with the text out.sql.  When the call
\* raises, the handler reads field_name, which is assigned only after the
\* call, and the UnboundLocalError leaves the function.
generate_filter_sql(query, sch, table_name, out) ==
    IF out.kind = "raise" THEN [signal |-> "raises", sql |-> <<>>]
    ELSE LET field_name == QueriedField(query, sch)
             sql == GuardAndTable(out.sql, table_name, field_name,
                        IF field_name = NULL THEN NULL
                        ELSE sanitize_field_name(field_name))
         IN  [signal |-> "returns",
              sql |-> RenameFields(ReplaceWord(sql, <<"*,">>, <<<<"*">>>>), DictKeys(sch))]

\* query_processor.generate_filter_sql: the same handler, and the guard
\* names the schema key as it is
qp_generate_filter_sql(query, sch, table_name, out) ==
    IF out.kind = "raise" THEN [signal |-> "raises", sql |-> <<>>]
    ELSE LET field_name == QueriedField(query, sch)
         IN  [signal |-> "returns",
              sql |-> GuardAndTable(out.sql, table_name, field_name, field_name)]

\* the table CREATE TABLE copy AS SELECT ... WHERE 1 = 0 makes
CopyName == <<"copy">>

\* What running the statement leaves in the store once the connection is
\* closed without a commit: the sqlite3 module opens a transaction before
\* DELETE, INSERT and UPDATE only, so those are rolled back and CREATE and
\* DROP stay.
Executed(store, sql) ==
    IF Head(sql) = <<"CREATE">>
    THEN [t \in DOMAIN store \cup {CopyName} |->
             IF t = CopyName THEN [store[TABLE_NAME] EXCEPT !.rows = <<>>]
             ELSE store[t]]
    ELSE IF Head(sql) = <<"DROP">>
    THEN [t \in DOMAIN store \ {TABLE_NAME} |-> store[t]]
    ELSE store

\* the backend refuses the statement: it reads a table that is gone or
\* creates one that exists
Refused(store, sql) ==
    \/ TABLE_NAME \notin DOMAIN store
    \/ Head(sql) = <<"CREATE">> /\ CopyName \in DOMAIN store

\* free_query_v3.execute_generated_sql; e1 and e2 are the backend's outcomes
\* ("ok" or "error") for the statement and for the repaired statement.  The
\* retry runs inside the handler of the first error, outside any try; the
\* repaired statement names the table 'clausess' where the statement named
\* 'clauses', so it changes nothing.
execute_generated_sql(store, sql, e1, e2) ==
    IF e1 = "ok" /\ ~Refused(store, sql)
    THEN [attempts |-> 1, signal |-> "returns", db |-> Executed(store, sql)]
    ELSE IF e2 = "ok" /\ TABLE_NAME \in DOMAIN store
    THEN [attempts |-> 2, signal |-> "returns", db |-> store]
    ELSE [attempts |-> 2, signal |-> "exception", db |-> store]

\* query_processor.execute_generated_sql; e0 is the outcome of the row
\* count that precedes the statement.  Every sqlite3.Error of the retry is
\* caught and the (empty) result list is returned.
qp_execute_generated_sql(store, sql, e0, e1, e2) ==
    IF e0 = "ok" /\ e1 = "ok" /\ ~Refused(store, sql)
    THEN [attempts |-> 1, signal |-> "returns", db |-> Executed(store, sql)]
    ELSE [attempts |-> IF e0 = "ok" /\ TABLE_NAME \in DOMAIN store THEN 2 ELSE 1,
          signal |-> "returns", db |-> store]

\* ------------------------------------------------------------------------
\* Inputs
\* ------------------------------------------------------------------------
\* corpus texts
Corpus == {<<"a">>, <<"b">>}

Fee == <<"f","e","e">>

Tag == <<"t","a","g">>

\* what the extraction service may answer for one requested field: an
\* exception, or an object that gives the field a value or null
ExtractOutcomes(field) ==
    {[kind |-> "raise", result |-> <<>>]}
    \cup {[kind |-> "object", result |-> <<<<field, v>>>>] : v \in {NULL, <<"5">>}}

\* an attribute name that differs from Tag and sanitizes to the same column
TagSpaced == <<"t","a","g"," ">>

\* the outcomes of the extraction that built the main table: the call
\* raised, the object gave the company, or it gave the company and an
\* attribute of its own besides
MainOutcomes ==
    {[kind |-> "raise", result |-> <<>>],
     [kind |-> "object", result |-> <<<<CompanyCol, <<"x">>>>>>],
     [kind |-> "object", result |-> <<<<CompanyCol, <<"x">>>>, <<TagSpaced, <<"y">>>>>>]}

\* a batch of records extracted by free_query_v3 from a list of clauses, one
\* service outcome and one random draw per clause
Batch(clauses, fields, outs, rs) ==
    [i \in 1..Len(clauses) |-> extract_fields_from_clause(clauses[i], fields, outs[i], rs[i])]

qp_Batch(clauses, fields, outs) ==
    [i \in 1..Len(clauses) |-> qp_extract_fields_from_clause(clauses[i], fields, outs[i])]

\* the service's type answer a for every key
AnswerAll(records, a) == [k \in SeqToSet(DictKeys(records[1])) |-> a]

\* the draw of every clause of the batch that built the main table
MainDraws(n) == [i \in 1..n |-> "0.1"]

\* ------------------------------------------------------------------------
\* State
\* ------------------------------------------------------------------------
VARIABLES
    impl,        \* which copy of the engine runs: "qp" or "v3"
    db,          \* the database: table name -> table
    mergeCall,   \* the arguments of the merge calls: staging table, new field, parent
    hist,        \* the merge calls made so far, oldest first
    corpus,      \* the clause texts of the corpus file, in order
    base_fields, \* the caller's list of known attributes
    schema,      \* the caller's working schema: a dict column -> type
    hq,          \* what the last query call did
    nq           \* the number of query calls made

vars == <<impl, db, mergeCall, hist, corpus, base_fields, schema, hq, nq>>

\* the position of the query call in flight and what it has done so far;
\* open counts the database connections the call opened and did not close
NoCall ==
    [pc |-> "idle", path |-> "none", query |-> <<>>, result |-> "none",
     stage |-> "none", attempts |-> 0, retryFailed |-> FALSE,
     merges |-> 0, mergeOutcome |-> "none",
     cls |-> "none", fields |-> <<>>,
     new_field |-> NULL, parent_field |-> NULL, staging |-> <<>>,
     clauses |-> <<>>, outs |-> <<>>, draws |-> <<>>, records |-> <<>>,
     before |-> [cols |-> <<>>], open |-> 0, sql |-> <<>>]

\* the main table 'clauses' built from the corpus by extracting 'company'
MainTable(which, clauses, outs) ==
    IF which = "qp"
    THEN qp_store_records_sql(qp_Batch(clauses, <<CompanyCol>>, outs), NULL)
    ELSE LET b == Batch(clauses, <<CompanyCol>>, outs, MainDraws(Len(clauses)))
         IN  store_records_sql(b, NULL, AnswerAll(b, "TEXT"))

\* the staging table a miss query stores for new_field
StagingTable(which, clauses, new_field, parent_field, outs, rs) ==
    IF which = "qp"
    THEN qp_store_records_sql(qp_Batch(clauses, <<new_field>>, outs), parent_field)
    ELSE LET b == Batch(clauses, <<new_field>>, outs, rs)
         IN  store_records_sql(b, parent_field, AnswerAll(b, "TEXT"))

InitMerge ==
    /\ impl \in {"qp", "v3"}
    /\ \E parent_field \in {NULL, CompanyCol}, n \in 1..MaxClauses :
        /\ mergeCall = [table |-> StagingName(sanitize_field_name(Tag)),
                        new_field |-> Tag, parent_field |-> parent_field]
        /\ \E clauses \in [1..n -> Corpus],
              mo \in MainOutcomes,
              souts \in [1..n -> ExtractOutcomes(Tag)],
              rs \in [1..n -> IF impl = "qp" THEN {"0.1"} ELSE RandomDraws] :
                db = [t \in {TABLE_NAME, mergeCall.table} |->
                        IF t = TABLE_NAME
                        THEN MainTable(impl, clauses, [i \in 1..n |-> mo])
                        ELSE StagingTable(impl, clauses, Tag, parent_field, souts, rs)]
    /\ hist = <<>>
    /\ corpus = <<>> /\ base_fields = <<>> /\ schema = <<>>
    /\ hq = NoCall /\ nq = 0

\* the record of one merge call: the main table before and after it, how
\* the call ended, and whether an injected storage error changed its course
MergeEntry(before, res, clean) ==
    [before |-> before, after |-> res.db[TABLE_NAME], outcome |-> res.outcome,
     signal |-> res.signal, injected |-> res /= clean]

\* one call of query_processor.merge_new_fields_to_main_table
MergeQP(fault, k) ==
    /\ impl = "qp"
    /\ Len(hist) < MaxMerges
    /\ LET res == qp_merge_new_fields_to_main_table(db, mergeCall.table,
                     mergeCall.new_field, mergeCall.parent_field, fault, k)
           clean == qp_merge_new_fields_to_main_table(db, mergeCall.table,
                     mergeCall.new_field, mergeCall.parent_field, "none", k)
       IN  /\ db' = res.db
           /\ hist' = Append(hist, MergeEntry(db[TABLE_NAME], res, clean))
    /\ UNCHANGED <<impl, mergeCall, corpus, base_fields, schema, hq, nq>>

\* one call of free_query_v3.merge_new_fields_to_main_table
MergeV3(fault) ==
    /\ impl = "v3"
    /\ Len(hist) < MaxMerges
    /\ LET res == merge_new_fields_to_main_table(db, mergeCall.table,
                     mergeCall.new_field, mergeCall.parent_field, fault, 1)
           clean == merge_new_fields_to_main_table(db, mergeCall.table,
                     mergeCall.new_field, mergeCall.parent_field, "none", 1)
       IN  /\ db' = res.db
           /\ hist' = Append(hist, MergeEntry(db[TABLE_NAME], res, clean))
    /\ UNCHANGED <<impl, mergeCall, corpus, base_fields, schema, hq, nq>>

NextMerge ==
    \/ \E fault \in MergeFaults, k \in 1..MaxClauses : MergeQP(fault, k)
    \/ \E fault \in MergeFaults \ {"select"} : MergeV3(fault)

SpecMerge == InitMerge /\ [][NextMerge]_vars

\* ------------------------------------------------------------------------
\* Query router (free_query_v3.handle_query, query_processor.process_query)
\* ------------------------------------------------------------------------
QueryCompany == <<"s","h","o","w"," ","m","e"," ","c","o">>

QueryTag == <<"w","h","a","t"," ","i","s"," ","t","h","e"," ","t","a","g">>

Queries == {QueryCompany, QueryTag}

\* outcomes of the attribute-discovery call
DiscoveryOutcomes ==
    {[kind |-> "raise", new_field |-> NULL, parent_field |-> NULL],
     [kind |-> "object", new_field |-> NULL, parent_field |-> NULL],
     [kind |-> "object", new_field |-> Tag, parent_field |-> NULL],
     [kind |-> "object", new_field |-> Tag, parent_field |-> CompanyCol],
     [kind |-> "object", new_field |-> Tag, parent_field |-> Fee],
     [kind |-> "object", new_field |-> Tag, parent_field |-> ParentCol],
     [kind |-> "object", new_field |-> <<" ">>, parent_field |-> NULL]}

\* the suffix handle_query gives a corpus clause when its draw is below 0.5
EffectiveDateDraws == {<<" effective date: ", "2024-01-05">>}

\* SELECT clause FROM clauses WHERE "<parent>" IS NOT NULL, keeping the
\* non-null clause texts; a quoted name that is no column reads as a string
ScopedClauses(main, parent_field) ==
    LET c == sanitize_field_name(parent_field)
        hit == SelectSeq(main.rows,
                 LAMBDA row : c \notin SeqToSet(main.cols) \/ row[c] /= NULL)
        texts == [i \in 1..Len(hit) |-> hit[i][ClauseCol]]
    IN  SelectSeq(texts, LAMBDA t : t /= NULL)

\* clauses_to_process
ClausesToProcess(store, sch, parent_field, eff) ==
    LET scoped == IF Truthy(parent_field) /\ DictHas(sch, parent_field)
                     /\ TABLE_NAME \in DOMAIN store
                  THEN ScopedClauses(store[TABLE_NAME], parent_field)
                  ELSE <<>>
    IN  IF scoped /= <<>> THEN scoped
        ELSE [i \in 1..Len(corpus) |-> corpus[i] \o eff]

\* what the extraction service may answer in a routed query; the clauses of
\* one query are all answered like the first one
RoutedExtractOutcomes ==
    IF hq.outs /= <<>> THEN {hq.outs[1]}
    ELSE {[kind |-> "raise", result |-> <<>>]}
         \cup {[kind |-> "object", result |-> <<<<hq.new_field, v>>>>] :
                 v \in {NULL, <<"5">>, NESTED}}

\* the random draw of the clause suffix in a routed query
RoutedDraws == {"0.5"}

\* the storage errors injected into the merge of a routed query
RoutedMergeFaults == {"none", "alter_parent", "dml"}

\* statements the synthesis service may answer with: a query with a
\* predicate that no row meets, and statements that write
StmtSelect == SelectAllFrom(TABLE_NAME) \o <<<<"WHERE">>, <<"1 = 0">>>>

StmtCreate == <<<<"CREATE">>, <<"TABLE">>, CopyName, <<"AS">>>> \o StmtSelect

StmtDelete == <<<<"DELETE">>, <<"FROM">>, TABLE_NAME>>

StmtDrop == <<<<"DROP">>, <<"TABLE">>, TABLE_NAME, <<"--">>, <<"FROM">>, TABLE_NAME>>

\* the outcomes of the synthesis call in a routed query
RoutedFilterOutcomes ==
    {[kind |-> "raise", sql |-> <<>>]}
    \cup {[kind |-> "text", sql |-> t] : t \in {StmtSelect, StmtCreate, StmtDelete, StmtDrop}}

\* the corpus file of n clauses
CorpusFile(n) == [i \in 1..n |-> IF i % 2 = 1 THEN <<"a">> ELSE <<"b">>]

\* the main table of the store; a table without columns when it is gone
MainOf(store) ==
    IF TABLE_NAME \in DOMAIN store THEN store[TABLE_NAME]
    ELSE [cols |-> <<>>, rows |-> <<>>]

\* the call ends: handle_query returns ("resolved", or "aborted" by its
\* early return) or an exception leaves it ("raised")
Finish(result, stage) == hq' = [hq EXCEPT !.pc = "idle", !.result = result, !.stage = stage]

\* the call ends by an exception raised between sqlite3.connect and
\* conn.close() of store_records_sql, which no finally clause guards
FinishOpen(result, stage) ==
    hq' = [hq EXCEPT !.pc = "idle", !.result = result, !.stage = stage, !.open = @ + 1]

\* handle_query starts: decide_query_type
Receive(query, cls) ==
    /\ impl = "v3"
    /\ hq.pc = "idle"
    /\ nq < MaxQueries
    /\ LET decision == decide_query_type(query, base_fields, cls)
       IN  hq' = [NoCall EXCEPT
                    !.pc = IF decision = "hit" THEN "synth" ELSE "discover",
                    !.path = decision, !.query = query, !.result = "running",
                    !.before = MainOf(db)]
    /\ nq' = nq + 1
    /\ UNCHANGED <<impl, db, mergeCall, hist, corpus, base_fields, schema>>

\* decide_new_field, the early return, and the choice of clauses_to_process
Discover(disc, eff) ==
    /\ hq.pc = "discover"
    /\ LET found == decide_new_field(hq.query, base_fields, disc)
       IN  IF ~TruthyValue(found[1])
           THEN Finish("aborted", "decide_new_field")
           ELSE hq' = [hq EXCEPT !.pc = "extract", !.fields = <<found[1]>>,
                                 !.new_field = found[1], !.parent_field = found[2],
                                 !.clauses = ClausesToProcess(db, schema, found[2], eff)]
    /\ UNCHANGED <<impl, db, mergeCall, hist, corpus, base_fields, schema, nq>>

\* one call of extract_fields_from_clause in the list comprehension
Extract(out, r) ==
    /\ impl = "v3"
    /\ hq.pc = "extract"
    /\ Len(hq.records) < Len(hq.clauses)
    /\ hq' = [hq EXCEPT
                !.records = Append(@, extract_fields_from_clause(
                                hq.clauses[Len(hq.records) + 1], hq.fields, out, r)),
                !.outs = Append(@, out),
                !.draws = Append(@, r)]
    /\ UNCHANGED <<impl, db, mergeCall, hist, corpus, base_fields, schema, nq>>

\* sanitize_field_name(new_field) and store_records_sql into the staging table
Store(ans) ==
    /\ hq.pc = "extract"
    /\ Len(hq.records) = Len(hq.clauses)
    /\ IF sanitize_raises(hq.new_field)
       THEN Finish("raised", "sanitize_field_name") /\ UNCHANGED db
       ELSE IF store_raises_early(hq.records)
            THEN Finish("raised", "store_records_sql") /\ UNCHANGED db
       ELSE IF Truthy(hq.parent_field) /\ sanitize_raises(hq.parent_field)
            THEN FinishOpen("raised", "store_records_sql") /\ UNCHANGED db
       ELSE
       LET new_table_name == StagingName(sanitize_field_name(hq.new_field))
           answer == AnswerAll(hq.records, ans)
           table == store_records_sql(hq.records, hq.parent_field, answer)
           failed == insert_raises(hq.records, hq.parent_field)
       IN  /\ db' = [t \in DOMAIN db \cup {new_table_name} |->
                        IF t = new_table_name
                        THEN IF failed
                             THEN EmptyTable(hq.records, hq.parent_field,
                                     SchemaTypes(hq.records, hq.parent_field, answer))
                             ELSE table
                        ELSE db[t]]
           /\ IF failed
              THEN FinishOpen("raised", "store_records_sql")
              ELSE hq' = [hq EXCEPT !.pc = "merge", !.staging = new_table_name]
    /\ UNCHANGED <<impl, mergeCall, hist, corpus, base_fields, schema, nq>>

\* merge_new_fields_to_main_table and the update of base_fields and schema
Merge(fault) ==
    /\ hq.pc = "merge"
    /\ LET merged == merge_new_fields_to_main_table(db, hq.staging,
                        hq.new_field, hq.parent_field, fault, 1)
           sch1 == DictSet(schema, hq.new_field, "TEXT")
       IN  /\ db' = merged.db
           /\ IF merged.outcome = "raised"
              THEN /\ Finish("raised", "merge_new_fields_to_main_table")
                   /\ UNCHANGED <<base_fields, schema>>
              ELSE /\ hq' = [hq EXCEPT !.pc = "synth", !.merges = @ + 1,
                                       !.mergeOutcome = merged.outcome]
                   /\ base_fields' = Append(base_fields, hq.new_field)
                   /\ schema' = IF Truthy(hq.parent_field)
                                THEN DictSet(sch1, ParentCol, "TEXT") ELSE sch1
    /\ UNCHANGED <<impl, mergeCall, hist, corpus, nq>>

\* generate_filter_sql
Synthesize(out) ==
    /\ hq.pc = "synth"
    /\ LET made == generate_filter_sql(hq.query, schema, TABLE_NAME, out)
       IN  IF made.signal = "raises"
           THEN Finish("raised", "generate_filter_sql")
           ELSE hq' = [hq EXCEPT !.pc = "execute", !.sql = made.sql]
    /\ UNCHANGED <<impl, db, mergeCall, hist, corpus, base_fields, schema, nq>>

\* execute_generated_sql
Execute(e1, e2) ==
    /\ hq.pc = "execute"
    /\ LET ex == execute_generated_sql(db, hq.sql, e1, e2)
       IN  /\ hq' = [hq EXCEPT !.pc = "idle", !.attempts = ex.attempts,
                               !.retryFailed = (ex.signal = "exception"),
                               !.result = IF ex.signal = "exception" THEN "raised" ELSE "resolved",
                               !.stage = "execute_generated_sql", !.sql = <<>>]
           /\ db' = ex.db
    /\ UNCHANGED <<impl, mergeCall, hist, corpus, base_fields, schema, nq>>

\* one call of query_processor.process_query: the schema is read from the
\* store, and without one the call returns at once; any exception of
\* synthesis or execution ends in an empty result
ProcessQuery(query, out, e0, e1, e2) ==
    /\ impl = "qp"
    /\ hq.pc = "idle"
    /\ nq < MaxQueries
    /\ LET main == MainOf(db)
           sch == [i \in 1..Len(main.cols) |-> <<main.cols[i], main.aff[main.cols[i]]>>]
           made == qp_generate_filter_sql(query, sch, TABLE_NAME, out)
           ran == sch /= <<>> /\ made.signal = "returns"
           ex == qp_execute_generated_sql(db, made.sql, e0, e1, e2)
       IN  /\ hq' = [NoCall EXCEPT
                    !.path = "process_query", !.query = query,
                    !.before = main,
                    !.result = "resolved",
                    !.stage = IF sch = <<>> THEN "process_query"
                              ELSE IF ~ran THEN "generate_filter_sql"
                              ELSE "execute_generated_sql",
                    !.attempts = IF ran THEN ex.attempts ELSE 0,
                    !.retryFailed = (ran /\ ex.attempts = 2 /\ e2 = "error")]
           /\ db' = IF ran THEN ex.db ELSE db
    /\ nq' = nq + 1
    /\ UNCHANGED <<impl, mergeCall, hist, corpus, base_fields, schema>>

InitRouter ==
    /\ impl \in {"qp", "v3"}
    /\ \E n \in 1..MaxClauses, mo \in {m \in MainOutcomes : Len(m.result) <= 1} :
        LET none == [kind |-> "object", result |-> <<<<CompanyCol, NULL>>>>]
            mouts == [i \in 1..n |-> IF i = n /\ n > 1 THEN none ELSE mo]
        IN  /\ corpus = CorpusFile(n)
            /\ db = [t \in {TABLE_NAME} |-> MainTable(impl, corpus, mouts)]
            /\ schema = LET b == Batch(corpus, <<CompanyCol>>, mouts, MainDraws(n))
                        IN  store_records_sql_schema(b, NULL, AnswerAll(b, "TEXT"))
    /\ base_fields = <<CompanyCol>>
    /\ mergeCall = [table |-> <<>>, new_field |-> NULL, parent_field |-> NULL]
    /\ hist = <<>>
    /\ hq = NoCall
    /\ nq = 0

NextRouter ==
    \/ \E query \in Queries, cls \in {"hit", "miss", "raise", "other"} : Receive(query, cls)
    \/ \E disc \in DiscoveryOutcomes, eff \in EffectiveDateDraws : Discover(disc, eff)
    \/ \E out \in RoutedExtractOutcomes, r \in RoutedDraws : Extract(out, r)
    \/ \E ans \in {"TEXT"} : Store(ans)
    \/ \E fault \in RoutedMergeFaults : Merge(fault)
    \/ \E out \in RoutedFilterOutcomes : Synthesize(out)
    \/ \E e1 \in {"ok", "error"}, e2 \in {"ok", "error"} : Execute(e1, e2)
    \/ \E query \in Queries, out \in RoutedFilterOutcomes, e0 \in {"ok", "error"},
          e1 \in {"ok", "error"}, e2 \in {"ok", "error"} :
            ProcessQuery(query, out, e0, e1, e2)

SpecRouter == InitRouter /\ [][NextRouter]_vars

\* ------------------------------------------------------------------------
\* Extraction over a batch of clauses
\* ------------------------------------------------------------------------
\* extract_and_populate.clean_record: lists and dicts become JSON text
clean_record(record) ==
    [i \in 1..Len(record) |->
        IF record[i][2] = NESTED THEN <<record[i][1], Str(NESTED)>> ELSE record[i]]

\* one turn of the loop of extract_and_populate.main, which calls
\* query_processor.extract_fields_from_clause
ExtractQP(out) ==
    /\ impl = "qp"
    /\ hq.pc = "extract"
    /\ Len(hq.records) < Len(hq.clauses)
    /\ hq' = [hq EXCEPT
                !.records = Append(@, clean_record(qp_extract_fields_from_clause(
                                hq.clauses[Len(hq.records) + 1], hq.fields, out))),
                !.outs = Append(@, out),
                !.draws = Append(@, "0.1")]
    /\ UNCHANGED <<impl, db, mergeCall, hist, corpus, base_fields, schema, nq>>

\* what the extraction service may do in one call: raise, answer with text
\* that is no JSON, with JSON that is no object, or with an object that
\* omits the fields or gives some of them a value
BatchOutcomes ==
    {[kind |-> k, result |-> <<>>] : k \in ExtractKinds}
    \cup {[kind |-> "object", result |-> <<<<Tag, v>>>>] : v \in {NULL, <<"5">>, NESTED}}

BatchFields == {<<Tag>>, <<Tag, Fee>>}

InitExtract ==
    /\ impl \in {"qp", "v3"}
    /\ \E n \in 1..MaxClauses :
        \E clauses \in [1..n -> Corpus], fields \in BatchFields :
            hq = [NoCall EXCEPT !.pc = "extract", !.clauses = clauses, !.fields = fields]
    /\ db = <<>> /\ hist = <<>>
    /\ mergeCall = [table |-> <<>>, new_field |-> NULL, parent_field |-> NULL]
    /\ corpus = <<>> /\ base_fields = <<>> /\ schema = <<>>
    /\ nq = 0

NextExtract ==
    \/ \E out \in BatchOutcomes, r \in RandomDraws : Extract(out, r)
    \/ \E out \in BatchOutcomes : ExtractQP(out)

SpecExtract == InitExtract /\ [][NextExtract]_vars

\* ------------------------------------------------------------------------
\* Classification of a query
\* ------------------------------------------------------------------------
QueryFee == <<"t","h","e"," ","F","e","e">>

ClassifyQueries == {QueryCompany, QueryTag, QueryFee, <<>>}

ClassifyFields ==
    {<<>>, <<CompanyCol>>, <<Fee>>, <<Tag, <<"F","e","e">>>>, <<<<"C","o">>, Tag>>,
     <<<<"f","e","e","s">>>>, <<<<>>>>}

ClassifyAnswers == {"hit", "miss", "raise", "other"}

\* one call of free_query_v3.decide_query_type
Classify(answer) ==
    /\ impl = "v3"
    /\ hq.pc = "classify"
    /\ hq' = [hq EXCEPT !.pc = "classified", !.cls = answer,
                        !.path = decide_query_type(hq.query, base_fields, answer)]
    /\ UNCHANGED <<impl, db, mergeCall, hist, corpus, base_fields, schema, nq>>

\* one call of query_processor.decide_query_type
ClassifyQP(answer) ==
    /\ impl = "qp"
    /\ hq.pc = "classify"
    /\ hq' = [hq EXCEPT !.pc = "classified", !.cls = answer,
                        !.path = qp_decide_query_type(hq.query, base_fields, answer)]
    /\ UNCHANGED <<impl, db, mergeCall, hist, corpus, base_fields, schema, nq>>

InitClassify ==
    /\ impl \in {"qp", "v3"}
    /\ \E query \in ClassifyQueries : hq = [NoCall EXCEPT !.pc = "classify", !.query = query]
    /\ base_fields \in ClassifyFields
    /\ db = <<>> /\ hist = <<>>
    /\ mergeCall = [table |-> <<>>, new_field |-> NULL, parent_field |-> NULL]
    /\ corpus = <<>> /\ schema = <<>>
    /\ nq = 0

NextClassify ==
    \/ \E answer \in ClassifyAnswers : Classify(answer)
    \/ \E answer \in ClassifyAnswers : ClassifyQP(answer)

SpecClassify == InitClassify /\ [][NextClassify]_vars

\* ------------------------------------------------------------------------
\* Sanitizing of attribute names
\* ------------------------------------------------------------------------
\* the characters of the names given to sanitize_field_name: a lower-case
\* letter, an upper-case letter, a digit, a space, punctuation, underscore
NameChars == {"a", "F", "5", " ", "!", "_"}

FieldNames == UNION {[1..n -> NameChars] : n \in 0..MaxNameLen}

\* one call of free_query_v3.sanitize_field_name
Sanitize ==
    /\ impl = "v3"
    /\ hq.pc = "sanitize"
    /\ hq' = IF sanitize_raises(hq.query)
             THEN [hq EXCEPT !.pc = "sanitized", !.result = "raised",
                             !.stage = "sanitize_field_name"]
             ELSE [hq EXCEPT !.pc = "sanitized", !.result = "returned",
                             !.stage = "sanitize_field_name",
                             !.new_field = sanitize_field_name(hq.query)]
    /\ UNCHANGED <<impl, db, mergeCall, hist, corpus, base_fields, schema, nq>>

\* one call of query_processor.sanitize_field_name
SanitizeQP ==
    /\ impl = "qp"
    /\ hq.pc = "sanitize"
    /\ hq' = IF sanitize_raises(hq.query)
             THEN [hq EXCEPT !.pc = "sanitized", !.result = "raised",
                             !.stage = "sanitize_field_name"]
             ELSE [hq EXCEPT !.pc = "sanitized", !.result = "returned",
                             !.stage = "sanitize_field_name",
                             !.new_field = sanitize_field_name(hq.query)]
    /\ UNCHANGED <<impl, db, mergeCall, hist, corpus, base_fields, schema, nq>>

InitSanitize ==
    /\ impl \in {"qp", "v3"}
    /\ \E name \in FieldNames : hq = [NoCall EXCEPT !.pc = "sanitize", !.query = name]
    /\ db = <<>> /\ hist = <<>>
    /\ mergeCall = [table |-> <<>>, new_field |-> NULL, parent_field |-> NULL]
    /\ corpus = <<>> /\ base_fields = <<>> /\ schema = <<>>
    /\ nq = 0

NextSanitize == Sanitize \/ SanitizeQP

SpecSanitize == InitSanitize /\ [][NextSanitize]_vars

\* ------------------------------------------------------------------------
\* Storing a batch of records (store_records_sql of both copies)
\* ------------------------------------------------------------------------
\* the table the batch is stored into
StoreName == StagingName(sanitize_field_name(Tag))

\* two attribute names that sanitize to the same identifier
SpacedKey == <<"t", " ", "g">>

UnderscoredKey == <<"t", "_", "g">>

\* the records a batch is made of: a plain one, one whose clause text is a
\* number, one with a nested value, one with an attribute the others lack,
\* the record of a failed extraction, and one with two colliding attribute
\* names and a '%' in the clause text
StoreRecords ==
    {<<<<Tag, <<"x">>>>, <<ClauseCol, <<"a">>>>>>,
     <<<<Tag, <<"5">>>>, <<ClauseCol, <<"5">>>>>>,
     <<<<Tag, NESTED>>, <<ClauseCol, <<"b">>>>>>,
     <<<<Tag, <<"y">>>>, <<Fee, <<"x">>>>, <<ClauseCol, <<"b">>>>>>,
     <<<<Tag, NULL>>>>,
     <<<<SpacedKey, <<"x">>>>, <<UnderscoredKey, <<"y">>>>, <<ClauseCol, <<"a", "%">>>>>>}

\* the table stored earlier under the same name
PriorTable ==
    LET b == <<<<<<Tag, <<"x">>>>, <<ClauseCol, <<"a">>>>>>>>
    IN  store_records_sql(b, NULL, AnswerAll(b, "TEXT"))

\* the schema dict query_processor.store_records_sql returns
qp_store_records_sql_schema(records, parent_field) ==
    LET cols == StoreSchemaCols(records, parent_field)
    IN  [i \in 1..Len(cols) |-> <<cols[i], qp_SchemaTypes(records, parent_field)[cols[i]]>>]

\* the store after DROP TABLE IF EXISTS; CREATE TABLE and the bulk insert
StoreInto(name, table) ==
    [t \in DOMAIN db \cup {name} |-> IF t = name THEN table ELSE db[t]]

\* one call of free_query_v3.store_records_sql(records, db, table, parent):
\* the connection is opened after the schema loop and closed on the last
\* line only; ans, the service's type answer, is logged in hq.outs
StoreRecordsSql(ans) ==
    /\ impl = "v3"
    /\ hq.pc = "store"
    /\ LET records == hq.records
           parent_field == hq.parent_field
           answer == AnswerAll(records, ans)
           type == SchemaTypes(records, parent_field, answer)
       IN  IF store_raises_early(records)
           THEN /\ hq' = [hq EXCEPT !.pc = "stored", !.result = "raised"]
                /\ UNCHANGED <<db, schema>>
           ELSE IF Truthy(parent_field) /\ sanitize_raises(parent_field)
           THEN /\ hq' = [hq EXCEPT !.pc = "stored", !.result = "raised", !.open = @ + 1]
                /\ UNCHANGED <<db, schema>>
           ELSE IF insert_raises(records, parent_field)
           THEN /\ hq' = [hq EXCEPT !.pc = "stored", !.result = "raised", !.open = @ + 1]
                /\ db' = StoreInto(hq.staging, EmptyTable(records, parent_field, type))
                /\ UNCHANGED schema
           ELSE /\ hq' = [hq EXCEPT !.pc = "stored", !.result = "returned", !.outs = <<ans>>]
                /\ db' = StoreInto(hq.staging, store_records_sql(records, parent_field, answer))
                /\ schema' = store_records_sql_schema(records, parent_field, answer)
    /\ UNCHANGED <<impl, mergeCall, hist, corpus, base_fields, nq>>

\* one call of query_processor.store_records_sql(records, db, table, parent):
\* the values are converted in the schema loop, then the connection is
\* opened and closed on the last line only
StoreRecordsSqlQP ==
    /\ impl = "qp"
    /\ hq.pc = "store"
    /\ LET records == hq.records
           parent_field == hq.parent_field
           type == qp_SchemaTypes(records, parent_field)
       IN  IF store_raises_early(records)
           THEN /\ hq' = [hq EXCEPT !.pc = "stored", !.result = "raised"]
                /\ UNCHANGED <<db, schema>>
           ELSE IF insert_raises(qp_converted(records, parent_field), parent_field)
           THEN /\ hq' = [hq EXCEPT !.pc = "stored", !.result = "raised", !.open = @ + 1]
                /\ db' = StoreInto(hq.staging,
                            EmptyTable(qp_converted(records, parent_field), parent_field, type))
                /\ UNCHANGED schema
           ELSE /\ hq' = [hq EXCEPT !.pc = "stored", !.result = "returned"]
                /\ db' = StoreInto(hq.staging, qp_store_records_sql(records, parent_field))
                /\ schema' = qp_store_records_sql_schema(records, parent_field)
    /\ UNCHANGED <<impl, mergeCall, hist, corpus, base_fields, nq>>

InitStore ==
    /\ impl \in {"qp", "v3"}
    /\ \E n \in 1..MaxClauses :
        \E records \in [1..n -> StoreRecords], parent_field \in {NULL, CompanyCol},
           prior \in BOOLEAN :
            /\ db = IF prior THEN [t \in {StoreName} |-> PriorTable] ELSE <<>>
            /\ hq = [NoCall EXCEPT !.pc = "store", !.records = records,
                                   !.parent_field = parent_field,
                                   !.staging = StoreName,
                                   !.before = IF prior THEN PriorTable ELSE @]
    /\ hist = <<>>
    /\ mergeCall = [table |-> <<>>, new_field |-> NULL, parent_field |-> NULL]
    /\ corpus = <<>> /\ base_fields = <<>> /\ schema = <<>>
    /\ nq = 0

NextStore ==
    \/ \E ans \in {"TEXT", "REAL"} : StoreRecordsSql(ans)
    \/ StoreRecordsSqlQP

SpecStore == InitStore /\ [][NextStore]_vars

\* ------------------------------------------------------------------------
\* Attribute discovery (decide_new_field of both copies)
\* ------------------------------------------------------------------------
QueryShowMe == <<"s","h","o","w"," ","m","e">>

\* queries with and without a remainder once the question stems are removed
DiscoverQueries == {QueryTag, QueryCompany, QueryShowMe, <<" ">>, <<>>}

DiscoverFields == {<<>>, <<CompanyCol>>, <<CompanyCol, Fee>>}

\* the value the service gives under "new_field": absent or null, empty,
\* whitespace only, a name, a value that is no string
NewFieldAnswers == {NULL, <<>>, <<" ">>, Tag, NESTED}

\* the value the service gives under "parent_field": null, empty, the word
\* null, a known attribute, a known attribute in another letter case, a
\* name that is no known attribute, a value that is no string
ParentAnswers ==
    {NULL, <<>>, <<"n","u","l","l">>, CompanyCol, <<"C","o">>, Tag, NESTED}

\* what the attribute-discovery call may do: raise, answer with text that
\* is no JSON object, or answer with an object
DiscoverOutcomes ==
    {[kind |-> k, new_field |-> NULL, parent_field |-> NULL] : k \in {"raise", "not_object"}}
    \cup {[kind |-> "object", new_field |-> n, parent_field |-> p] :
            n \in NewFieldAnswers, p \in ParentAnswers}

\* one call of free_query_v3.decide_new_field
DecideNewField(out) ==
    /\ impl = "v3"
    /\ hq.pc = "decide"
    /\ LET found == decide_new_field(hq.query, base_fields, out)
       IN  hq' = [hq EXCEPT !.pc = "decided", !.outs = <<out>>,
                            !.new_field = found[1], !.parent_field = found[2]]
    /\ UNCHANGED <<impl, db, mergeCall, hist, corpus, base_fields, schema, nq>>

\* one call of query_processor.decide_new_field, which has the same body
DecideNewFieldQP(out) ==
    /\ impl = "qp"
    /\ hq.pc = "decide"
    /\ LET found == decide_new_field(hq.query, base_fields, out)
       IN  hq' = [hq EXCEPT !.pc = "decided", !.outs = <<out>>,
                            !.new_field = found[1], !.parent_field = found[2]]
    /\ UNCHANGED <<impl, db, mergeCall, hist, corpus, base_fields, schema, nq>>

InitDiscover ==
    /\ impl \in {"qp", "v3"}
    /\ \E query \in DiscoverQueries : hq = [NoCall EXCEPT !.pc = "decide", !.query = query]
    /\ base_fields \in DiscoverFields
    /\ db = <<>> /\ hist = <<>>
    /\ mergeCall = [table |-> <<>>, new_field |-> NULL, parent_field |-> NULL]
    /\ corpus = <<>> /\ schema = <<>>
    /\ nq = 0

NextDiscover ==
    \/ \E out \in DiscoverOutcomes : DecideNewField(out)
    \/ \E out \in DiscoverOutcomes : DecideNewFieldQP(out)

SpecDiscover == InitDiscover /\ [][NextDiscover]_vars

\* ------------------------------------------------------------------------
\* Filter synthesis (generate_filter_sql) as a function of its inputs
\* ------------------------------------------------------------------------
TagCapital == <<"T","a","g">>

QueryUpper == <<"C","O","?">>

FilterQueries == {QueryCompany, QueryTag, QueryUpper}

\* working schemas: the keys are attribute names as they were discovered
FilterSchemas ==
    {<<<<CompanyCol, "TEXT">>, <<ClauseCol, "TEXT">>>>,
     <<<<CompanyCol, "TEXT">>, <<ClauseCol, "TEXT">>, <<TagCapital, "TEXT">>>>}

\* what the synthesis service may answer: statements with the keywords in
\* upper or lower case, a lone predicate, a statement without WHERE, one
\* over another table, one that names a schema key, and statements that write
FilterOutcomes ==
    RoutedFilterOutcomes
    \cup {[kind |-> "text", sql |-> t] : t \in
            {<<<<"select">>, <<"*">>, <<"from">>, TABLE_NAME, <<"where">>, <<"1 = 0">>>>,
             <<<<"1 = 0">>>>,
             <<<<"WHERE">>, <<"1 = 0">>>>,
             SelectAllFrom(TABLE_NAME),
             <<<<"SELECT">>, <<"*,">>, ClauseCol, <<"FROM">>, <<"t">>, <<"WHERE">>, <<"1 = 0">>>>,
             SelectAllFrom(TABLE_NAME) \o <<<<"WHERE">>, Quoted(TagCapital), <<"=">>, <<"1 = 0">>>>}}

\* one call of free_query_v3.generate_filter_sql
GenerateFilterSql ==
    /\ impl = "v3"
    /\ hq.pc = "filter"
    /\ LET made == generate_filter_sql(hq.query, schema, TABLE_NAME, hq.outs[1])
       IN  hq' = [hq EXCEPT !.pc = "filtered", !.result = made.signal, !.sql = made.sql]
    /\ UNCHANGED <<impl, db, mergeCall, hist, corpus, base_fields, schema, nq>>

\* one call of query_processor.generate_filter_sql
GenerateFilterSqlQP ==
    /\ impl = "qp"
    /\ hq.pc = "filter"
    /\ LET made == qp_generate_filter_sql(hq.query, schema, TABLE_NAME, hq.outs[1])
       IN  hq' = [hq EXCEPT !.pc = "filtered", !.result = made.signal, !.sql = made.sql]
    /\ UNCHANGED <<impl, db, mergeCall, hist, corpus, base_fields, schema, nq>>

InitFilter ==
    /\ impl \in {"qp", "v3"}
    /\ \E query \in FilterQueries, out \in FilterOutcomes :
          hq = [NoCall EXCEPT !.pc = "filter", !.query = query, !.outs = <<out>>]
    /\ schema \in FilterSchemas
    /\ base_fields = DictKeys(schema)
    /\ db = <<>> /\ hist = <<>>
    /\ mergeCall = [table |-> <<>>, new_field |-> NULL, parent_field |-> NULL]
    /\ corpus = <<>>
    /\ nq = 0

NextFilter == GenerateFilterSql \/ GenerateFilterSqlQP

SpecFilter == InitFilter /\ [][NextFilter]_vars

\* ------------------------------------------------------------------------
\* Properties of the merge engine (SpecMerge)
\* ------------------------------------------------------------------------
MergedCol == sanitize_field_name(mergeCall.new_field)

\* the staging rows a merge is to carry over whose clause no main row has
Unmatched(entry) ==
    {i \in 1..Len(db[mergeCall.table].rows) :
        /\ db[mergeCall.table].rows[i][MergedCol] /= NULL
        /\ \A j \in 1..Len(entry.before.rows) :
              entry.before.rows[j][ClauseCol] /= db[mergeCall.table].rows[i][ClauseCol]}

C2_UnmatchedRowInserted ==
    \A e \in 1..Len(hist) :
        (~hist[e].injected) =>
            \A i \in Unmatched(hist[e]) :
                /\ hist[e].outcome = "ok"
                /\ \E j \in 1..Len(hist[e].after.rows) :
                      LET row == hist[e].after.rows[j]
                          srow == db[mergeCall.table].rows[i]
                      IN  /\ row[ClauseCol] = srow[ClauseCol]
                          /\ row[MergedCol] /= NULL
                          /\ \A c \in SeqToSet(hist[e].after.cols) \ {ClauseCol, MergedCol, ParentCol} :
                                row[c] = NULL

\* C3: a merge that fails part-way leaves the main table as it was before
\* the call.
C3_FailedMergeLeavesMainUnchanged ==
    \A e \in 1..Len(hist) :
        hist[e].outcome = "error" => hist[e].after = hist[e].before

\* C4: a merge that fails with a storage error lets its caller see the
\* failure.
C4_FailedMergeSurfaces ==
    \A e \in 1..Len(hist) :
        hist[e].outcome = "error" => hist[e].signal /= "returns None"

\* the value row j of table t holds in column c, null when t has no such
\* column
CellOf(t, j, c) == IF c \in SeqToSet(t.cols) THEN t.rows[j][c] ELSE NULL

\* the staging rows whose clause is the clause of row j of table t
MatchingStaging(t, j) ==
    {i \in 1..Len(db[mergeCall.table].rows) :
        /\ t.rows[j][ClauseCol] /= NULL
        /\ db[mergeCall.table].rows[i][ClauseCol] = t.rows[j][ClauseCol]}

\* C21: a main row whose clause matches only staging rows with a null
\* value of the new attribute keeps the new-attribute value and the
\* parent_field value it had before the merge.
C21_NullStagingRowsIgnored ==
    \A e \in 1..Len(hist) :
        \A j \in 1..Len(hist[e].before.rows) :
            (/\ MatchingStaging(hist[e].before, j) /= {}
             /\ \A i \in MatchingStaging(hist[e].before, j) :
                   db[mergeCall.table].rows[i][MergedCol] = NULL)
            => /\ CellOf(hist[e].after, j, MergedCol) = CellOf(hist[e].before, j, MergedCol)
               /\ CellOf(hist[e].after, j, ParentCol) = CellOf(hist[e].before, j, ParentCol)

\* C28: a merge deletes no row and no column of the main table, and every
\* row that was there keeps its values in all columns but the column of
\* the new attribute and parent_field.
C28_MergeFrame ==
    \A e \in 1..Len(hist) :
        /\ Len(hist[e].after.rows) >= Len(hist[e].before.rows)
        /\ SeqToSet(hist[e].before.cols) \subseteq SeqToSet(hist[e].after.cols)
        /\ \A j \in 1..Len(hist[e].before.rows) :
              \A c \in SeqToSet(hist[e].before.cols) \ {MergedCol, ParentCol} :
                  hist[e].after.rows[j][c] = hist[e].before.rows[j][c]

\* a merge gave a row of the main table a value of the new attribute, and
\* the row holds a clause and a company
C28_Witness ==
    \E e \in 1..Len(hist) :
        /\ hist[e].outcome = "ok"
        /\ \E j \in 1..Len(hist[e].before.rows) :
              /\ CellOf(hist[e].after, j, MergedCol) /= CellOf(hist[e].before, j, MergedCol)
              /\ CellOf(hist[e].before, j, ClauseCol) /= NULL
              /\ CellOf(hist[e].before, j, CompanyCol) /= NULL

\* C30: the merge of a new attribute leaves the values stored for the
\* attributes the main table was built from, which have other names: every
\* row keeps the value it had in the column of each of them.
C30_EarlierAttributeKept ==
    \A e \in 1..Len(hist) :
        \A earlier \in {CompanyCol, TagSpaced} \ {mergeCall.new_field} :
            \A j \in 1..Len(hist[e].before.rows) :
                LET c == sanitize_field_name(earlier)
                IN  c \in SeqToSet(hist[e].before.cols)
                    => hist[e].after.rows[j][c] = hist[e].before.rows[j][c]

\* ------------------------------------------------------------------------
\* Properties of the query router (SpecRouter)
\* ------------------------------------------------------------------------
\* C5: across handle_query calls the main table is never dropped or
\* recreated and keeps every column it has: each step leaves the table in
\* the store with all its columns and rows.
C5_MainColumnsOnlyGrow ==
    [][(TABLE_NAME \in DOMAIN db) =>
          (/\ TABLE_NAME \in DOMAIN db'
           /\ SeqToSet(db[TABLE_NAME].cols) \subseteq SeqToSet(db'[TABLE_NAME].cols)
           /\ Len(db'[TABLE_NAME].rows) >= Len(db[TABLE_NAME].rows))]_vars

\* a second miss query has added a column to a main table that an earlier
\* query had already widened
C5_Witness ==
    /\ hq.pc = "idle" /\ hq.path = "miss" /\ nq >= 2
    /\ Len(hq.before.cols) >= 3
    /\ TABLE_NAME \in DOMAIN db
    /\ Len(db[TABLE_NAME].cols) > Len(hq.before.cols)
    /\ SeqToSet(hq.before.cols) \subseteq SeqToSet(db[TABLE_NAME].cols)

\* C6: every handle_query call ends in Resolved, whatever the service and
\* the backend do: no call ends by raising or before filter execution.
C6_EveryQueryResolves ==
    (hq.pc = "idle" /\ hq.path \in {"hit", "miss"})
        => (hq.result = "resolved" /\ hq.stage = "execute_generated_sql")

\* C7: the executor makes at most two attempts, and when the retry fails
\* too it returns to the router instead of raising.
C7_RetryFailureReturnsEmpty ==
    (hq.pc = "idle" /\ hq.stage = "execute_generated_sql")
        => /\ hq.attempts <= 2
           /\ hq.retryFailed => hq.result = "resolved"

\* the clause text was in the extraction scope of the last call (a main row
\* with a non-null parent column held it) and the extraction service
\* answered it with a non-null value for the new attribute
ExtractedInScope(text) ==
    /\ \E j \in 1..Len(hq.before.rows) :
          /\ hq.before.rows[j][ClauseCol] = text
          /\ hq.before.rows[j][sanitize_field_name(hq.parent_field)] /= NULL
    /\ \E i \in 1..Len(hq.clauses) :
          /\ hq.clauses[i] = text
          /\ hq.outs[i].kind = "object"
          /\ DictHas(hq.outs[i].result, hq.new_field)
          /\ ~IsNone(DictGet(hq.outs[i].result, hq.new_field))

\* the last call took the miss path with a parent that is a main column,
\* extracted from the scoped rows, merged without a storage error and ended
ScopedMissDone ==
    /\ hq.pc = "idle" /\ hq.path = "miss" /\ hq.result = "resolved"
    /\ hq.merges = 1 /\ hq.mergeOutcome = "ok"
    /\ Truthy(hq.parent_field)
    /\ sanitize_field_name(hq.parent_field) \in SeqToSet(hq.before.cols)
    /\ hq.clauses = ScopedClauses(hq.before, hq.parent_field)
    /\ hq.clauses /= <<>>

\* C11: after a miss query with a valid parent the main table has a column
\* for the new attribute, and the rows populated in it are exactly the rows
\* that were in the extraction scope and got a non-null value extracted.
C11_ScopedRowsPopulated ==
    ScopedMissDone =>
        LET c == sanitize_field_name(hq.new_field)
            main == MainOf(db)
        IN  /\ c \in SeqToSet(main.cols)
            /\ \A j \in 1..Len(main.rows) :
                  (main.rows[j][c] /= NULL) <=> ExtractedInScope(main.rows[j][ClauseCol])

\* C17: after the miss path of handle_query completes, the keys of the
\* working schema of the router are the live column names of the main
\* table.
C17_SchemaIsLiveColumns ==
    (hq.pc = "idle" /\ hq.path = "miss" /\ hq.result = "resolved")
        => SeqToSet(DictKeys(schema)) = SeqToSet(MainOf(db).cols)

\* C22: on the miss path the staging table always has a parent_field
\* column, also when the discovered parent is null.
C22_StagingHasParentMarker ==
    (hq.path = "miss" /\ hq.staging /= <<>>)
        => /\ hq.staging \in DOMAIN db
           /\ ParentCol \in SeqToSet(db[hq.staging].cols)

\* the clause texts of the rows of the main table, as the call found it,
\* whose parent column is non-null; none when the parent is null or names
\* no column of the main table
ParentScope ==
    IF Truthy(hq.parent_field)
       /\ sanitize_field_name(hq.parent_field) \in SeqToSet(hq.before.cols)
    THEN LET c == sanitize_field_name(hq.parent_field)
             inScope == SelectSeq(hq.before.rows,
                           LAMBDA row : row[c] /= NULL /\ row[ClauseCol] /= NULL)
         IN  [i \in 1..Len(inScope) |-> inScope[i][ClauseCol]]
    ELSE <<>>

\* C23: on the miss path the clauses sent to extraction are the clause
\* texts of the main rows whose parent column is non-null when the parent
\* names a main column and some row has it; otherwise (no such row, no
\* such column, or no parent) they are the clauses of the whole corpus, one
\* per corpus entry.
C23_ExtractionScope ==
    (hq.path = "miss" /\ hq.fields /= <<>>) =>
        IF ParentScope /= <<>>
        THEN hq.clauses = ParentScope
        ELSE /\ Len(hq.clauses) = Len(corpus)
             /\ \A i \in 1..Len(corpus) :
                   SubSeq(hq.clauses[i], 1, Len(corpus[i])) = corpus[i]

\* ------------------------------------------------------------------------
\* Properties of the classification (SpecClassify)
\* ------------------------------------------------------------------------
\* attr occurs in q as a substring, letter case ignored
OccursIn(attr, q) ==
    \E k \in 0..(Len(q) - Len(attr)) :
        \A j \in 1..Len(attr) : lower(q[k + j]) = lower(attr[j])

\* C8: when the classification call raises, the decision is "hit" if some
\* known attribute occurs in the query as a case-insensitive substring and
\* "miss" otherwise.
C8_FallbackIsSubstringRule ==
    (hq.pc = "classified" /\ hq.cls = "raise")
        => hq.path = IF \E i \in 1..Len(base_fields) : OccursIn(base_fields[i], hq.query)
                     THEN "hit" ELSE "miss"

\* the call raised and an attribute matched only because case is ignored
C8_Witness ==
    /\ hq.pc = "classified" /\ hq.cls = "raise" /\ hq.path = "hit"
    /\ \E i \in 1..Len(base_fields) :
          OccursIn(base_fields[i], hq.query) /\ ~Contains(hq.query, base_fields[i])

\* C20: when the classification service answers with anything other than
\* 'hit' or 'miss', the decision is that of the rule used on a service
\* failure: "hit" if some known attribute occurs in the query, letter case
\* ignored, and "miss" otherwise.
C20_UnrecognizedAnswerUsesRule ==
    (hq.pc = "classified" /\ hq.cls = "other")
        => /\ hq.path \in {"hit", "miss"}
           /\ hq.path = IF \E i \in 1..Len(base_fields) : OccursIn(base_fields[i], hq.query)
                        THEN "hit" ELSE "miss"

\* ------------------------------------------------------------------------
\* Properties of the extraction over a batch (SpecExtract)
\* ------------------------------------------------------------------------
\* the record one call returns for clause i when it is made on its own
LoneRecord(i) ==
    IF impl = "qp"
    THEN clean_record(qp_extract_fields_from_clause(hq.clauses[i], hq.fields, hq.outs[i]))
    ELSE extract_fields_from_clause(hq.clauses[i], hq.fields, hq.outs[i], hq.draws[i])

\* C9: the batch holds one record per clause processed, in the order of the
\* clauses; the record of a clause whose call failed has every requested
\* field null, and every other record is the one its call returns when no
\* call fails.
C9_BatchIsolatesFailures ==
    hq.pc = "extract" =>
        /\ Len(hq.records) = Len(hq.outs)
        /\ Len(hq.records) <= Len(hq.clauses)
        /\ \A i \in 1..Len(hq.records) :
            /\ \A k \in 1..Len(hq.fields) : DictHas(hq.records[i], hq.fields[k])
            /\ hq.outs[i].kind /= "object"
                  => \A k \in 1..Len(hq.fields) : DictGet(hq.records[i], hq.fields[k]) = NULL
            /\ hq.outs[i].kind = "object"
                  => /\ hq.records[i] = LoneRecord(i)
                     /\ SubSeq(DictGet(hq.records[i], ClauseCol), 1, Len(hq.clauses[i]))
                            = hq.clauses[i]

\* a batch of two clauses is complete: the first call failed, the second
\* one returned a value
C9_Witness ==
    /\ hq.pc = "extract"
    /\ Len(hq.clauses) >= 2 /\ Len(hq.records) = Len(hq.clauses)
    /\ hq.outs[1].kind = "raise" /\ hq.outs[2].kind = "object"
    /\ DictGet(hq.records[1], Tag) = NULL
    /\ DictGet(hq.records[2], Tag) /= NULL

\* C10: every record of extract_fields_from_clause has a key for each
\* requested field and a 'clause' key holding the clause text passed in.
C10_RecordHasFieldsAndClause ==
    hq.pc = "extract" =>
        \A i \in 1..Len(hq.records) :
            /\ \A k \in 1..Len(hq.fields) : DictHas(hq.records[i], hq.fields[k])
            /\ DictHas(hq.records[i], ClauseCol)
            /\ DictGet(hq.records[i], ClauseCol) = hq.clauses[i]

\* ------------------------------------------------------------------------
\* Properties of the name sanitizing (SpecSanitize)
\* ------------------------------------------------------------------------
\* s matches ^[A-Za-z_][A-Za-z0-9_]*$
ValidIdentifier(s) ==
    /\ s /= <<>>
    /\ s[1] \in LowerLetters \cup UpperLetters \cup {"_"}
    /\ \A i \in 1..Len(s) : s[i] \in LowerLetters \cup UpperLetters \cup Digits \cup {"_"}

\* C12: sanitize_field_name returns for every input string, the empty and
\* the whitespace-only ones included, and what it returns is a lower-case
\* identifier matching ^[A-Za-z_][A-Za-z0-9_]*$ that depends on the input
\* alone.
C12_SanitizeTotalAndValid ==
    hq.pc = "sanitized" =>
        /\ hq.result = "returned"
        /\ ValidIdentifier(hq.new_field)
        /\ \A i \in 1..Len(hq.new_field) : hq.new_field[i] \notin UpperLetters
        /\ hq.new_field = sanitize_field_name(hq.query)

\* ------------------------------------------------------------------------
\* Properties of the table store (SpecStore)
\* ------------------------------------------------------------------------
\* the attribute names of the records of the batch
RecordAttributes == UNION {SeqToSet(DictKeys(hq.records[i])) : i \in 1..Len(hq.records)}

\* the sanitized attribute names, 'clause', and 'parent_field' when a
\* parent is given
ExpectedColumns ==
    {sanitize_field_name(k) : k \in RecordAttributes}
        \cup {ClauseCol}
        \cup (IF Truthy(hq.parent_field) THEN {ParentCol} ELSE {})

\* store_records_sql has returned
StoreReturned == hq.pc = "stored" /\ hq.result = "returned"

\* C13: after store_records_sql succeeds, the live columns of the table
\* are the keys of the schema it returns, and these are the sanitized names
\* of the record attributes plus 'clause', plus 'parent_field' when a
\* parent is given, also for colliding names and for unlike records.
C13_StoredColumnsMatchSchema ==
    StoreReturned =>
        /\ SeqToSet(db[hq.staging].cols) = SeqToSet(DictKeys(schema))
        /\ SeqToSet(db[hq.staging].cols) = ExpectedColumns

\* C14: the schema store_records_sql returns has 'clause' with type TEXT
\* whatever the clause texts hold, and every stored row keeps the clause
\* text of its record unchanged.
C14_ClauseIsText ==
    StoreReturned =>
        /\ DictHas(schema, ClauseCol)
        /\ DictGet(schema, ClauseCol) = "TEXT"
        /\ \A i \in 1..Len(hq.records) :
              db[hq.staging].rows[i][ClauseCol] = DictGet(hq.records[i], ClauseCol)

\* C18: when store_records_sql fails after it has started, the table
\* holds all the given records or is as it was before the call.
C18_FailedStoreKeepsTable ==
    (hq.pc = "stored" /\ hq.result = "raised") =>
        \/ /\ hq.staging \in DOMAIN db
           /\ Len(db[hq.staging].rows) = Len(hq.records)
           /\ hq.records /= <<>>
        \/ IF hq.before.cols = <<>>
           THEN hq.staging \notin DOMAIN db
           ELSE hq.staging \in DOMAIN db /\ db[hq.staging] = hq.before

\* C19: store_records_sql closes the connection it opened on every exit
\* path, also when it raises.
C19_ConnectionClosed ==
    hq.pc = "stored" => hq.open = 0

\* the type the majority of the samples gives: REAL when more than half are
\* numeric, else DATE when more than half are dates, else TEXT
MajorityType(values) ==
    IF 2 * Len(SelectSeq(values, CountsNumeric)) > Len(values) THEN "REAL"
    ELSE IF 2 * Len(SelectSeq(values, IsDateStr)) > Len(values) THEN "DATE"
    ELSE "TEXT"

\* C26: the type inferred for a column is REAL when strictly more than half
\* of its non-null samples are numeric, otherwise DATE when strictly more
\* than half are dates, otherwise TEXT, whatever the column is called.
C26_TypeByMajority ==
    (impl = "qp" /\ hq.pc = "stored" /\ hq.result = "returned") =>
        \A i \in 1..Len(hq.records[1]) :
            LET k == hq.records[1][i][1]
                c == sanitize_field_name(k)
            IN  (/\ k = LastKeyFor(DictKeys(hq.records[1]), c)
                 /\ ~(c = ParentCol /\ Truthy(hq.parent_field)))
                => DictGet(schema, c) = MajorityType(NonNullValues(hq.records, k))

\* the batch in another order of extraction
Permuted(records) ==
    {[i \in 1..Len(records) |-> records[p[i]]] :
        p \in {q \in [1..Len(records) -> 1..Len(records)] :
                \A i, j \in 1..Len(records) : q[i] = q[j] => i = j}}

\* C27: the staging table stored for a batch is the same for every order
\* of the per-clause extractions: the batch in any other order is stored
\* too, with the same columns and the same set of rows.
C27_StagingIndependentOfOrder ==
    (impl = "v3" /\ hq.pc = "stored" /\ hq.result = "returned") =>
        \A other \in Permuted(hq.records) :
            /\ ~store_raises_early(other)
            /\ ~insert_raises(other, hq.parent_field)
            /\ LET t == store_records_sql(other, hq.parent_field,
                                          AnswerAll(other, hq.outs[1]))
               IN  /\ SeqToSet(t.cols) = SeqToSet(db[hq.staging].cols)
                   /\ SeqToSet(t.rows) = SeqToSet(db[hq.staging].rows)

\* ------------------------------------------------------------------------
\* Properties of the attribute discovery (SpecDiscover)
\* ------------------------------------------------------------------------
\* name is a string sanitize_field_name turns into a valid identifier
UsableName(name) ==
    /\ IsStr(name)
    /\ ~sanitize_raises(name)
    /\ ValidIdentifier(sanitize_field_name(name))

\* the name decide_new_field falls back to
FallbackName(query, placeholder) ==
    IF derived_new_field(query) /= <<>> THEN derived_new_field(query) ELSE placeholder

\* C15: the parent attribute decide_new_field returns is null or equal,
\* letter case ignored, to one of the known attributes; any other value of
\* the service is normalized to null.
C15_ParentIsNullOrKnown ==
    hq.pc = "decided" =>
        \/ hq.parent_field = NULL
        \/ /\ IsStr(hq.parent_field)
           /\ \E k \in 1..Len(base_fields) : Lower(base_fields[k]) = Lower(hq.parent_field)

\* C16: decide_new_field returns a non-empty name that sanitizes to a valid
\* column identifier, whatever the service answers; when the service fails
\* or gives no new_field the name is the query without the question stems,
\* or the placeholder when nothing remains.
C16_NewFieldIsUsable ==
    hq.pc = "decided" =>
        /\ UsableName(hq.new_field)
        /\ hq.outs[1].kind /= "object"
              => hq.new_field = FallbackName(hq.query, unknown_new_field_on_error)
        /\ (hq.outs[1].kind = "object" /\ ~TruthyValue(hq.outs[1].new_field))
              => hq.new_field = FallbackName(hq.query, unknown_new_field)

\* ------------------------------------------------------------------------
\* Properties of the filter synthesis (SpecFilter, SpecRouter)
\* ------------------------------------------------------------------------
\* C24: when the synthesis call raises, generate_filter_sql returns the
\* fallback statement over the table, unconstrained or guarded by IS NOT
\* NULL on the queried column, and does not raise.
C24_FallbackOnServiceFailure ==
    (hq.pc = "filtered" /\ hq.outs[1].kind = "raise") =>
        /\ hq.result = "returns"
        /\ \/ hq.sql = SelectAllFrom(TABLE_NAME)
           \/ \E i \in 1..Len(schema) :
                 hq.sql \in {SelectNotNull(TABLE_NAME, schema[i][1]),
                             SelectNotNull(TABLE_NAME, sanitize_field_name(schema[i][1]))}

\* the statement has an IS NOT NULL guard on the column of the field
HasGuard(sql, field) ==
    \E i \in 1..(Len(sql) - 1) :
        /\ sql[i] \in {Quoted(field), Quoted(sanitize_field_name(field))}
        /\ sql[i + 1] = <<"IS NOT NULL">>

\* the statement reads from the table
SelectsFrom(sql, table_name) ==
    \E i \in 1..(Len(sql) - 1) :
        UpperWord(sql[i]) = <<"FROM">> /\ sql[i + 1] = table_name

\* C25: when a schema key occurs in the query, letter case ignored, the
\* statement returned for any text of the service has the IS NOT NULL guard
\* on the first such key, reads from the given table, and keeps the
\* predicate of the service.
C25_GuardOnQueriedColumn ==
    (/\ hq.pc = "filtered"
     /\ hq.outs[1].kind = "text"
     /\ QueriedField(hq.query, schema) /= NULL) =>
        /\ hq.result = "returns"
        /\ HasGuard(hq.sql, QueriedField(hq.query, schema))
        /\ SelectsFrom(hq.sql, TABLE_NAME)
        /\ \A i \in 1..Len(hq.outs[1].sql) :
              hq.outs[1].sql[i] = <<"1 = 0">> =>
                  \E j \in 1..Len(hq.sql) : hq.sql[j] = <<"1 = 0">>

\* C29: a query classified as hit leaves the store, the known attributes
\* and the working schema as they were: no step of the hit path changes a
\* table, creates one, or changes base_fields or schema.
C29_HitLeavesStateUnchanged ==
    [][(hq.path = "hit") =>
          (db' = db /\ base_fields' = base_fields /\ schema' = schema)]_vars

====
